---- MODULE Spec2Model ----
(***************************************************************************)
(* Keyword insight functions of src/seo_functions.py:                      *)
(*   calculate_opportunity_score, detect_seasonality,                      *)
(*   calculate_growth_rate, generate_recommendation.                       *)
(*                                                                         *)
(* Representation.  A Python value read from the keyword dict is a record  *)
(* [t, v]: t is "missing" (key absent), "none", "str" (a non-empty, non-   *)
(* numeric string) or "num"; v is the number.  search_volume and month are *)
(* integers.  competition is a decimal; it is held as the integer          *)
(* 100 * competition, which is the product competition * 100 the score     *)
(* divides by.  Floats returned by the code (score, growth rate) are held  *)
(* in tenths: the code rounds both to one decimal place.  Arithmetic that  *)
(* the code does in floating point is done exactly on fractions; the one   *)
(* place where the binary value of a float decides the outcome, round(x,1) *)
(* on a decimal tie, is resolved by tieUp, which is fixed per record but   *)
(* arbitrary.  The year of a monthly entry is never read by the code and   *)
(* is not represented.                                                     *)
(*                                                                         *)
(* Three specifications of the functions.  Spec: one record, the functions called on it in  *)
(* any order; call and ret hold the last call and what it returned.        *)
(* SpecHistory: the same calls, each appended to trace.  SpecWorkers:      *)
(* workers that each call one function on a record of their own, the loop  *)
(* of detect_seasonality taken one entry at a time, in any interleaving;   *)
(* acc holds the lists peak_months and low_months of each running call.    *)
(*                                                                         *)
(* A fourth specification, SpecPage, is the keyword research page of       *)
(* src/app_keywords.py: session is st.session_state (keywords_data,        *)
(* selected_keywords, the values of the filter widgets and of the row      *)
(* checkboxes), db the keywords saved, and run what the last script run    *)
(* did.  One action is one script run, from the click to the last widget.  *)
(* What a keyed checkbox returns when the value it holds differs from the  *)
(* default passed to it depends on the Streamlit release: either is taken. *)
(***************************************************************************)
EXTENDS Integers, Sequences, FiniteSets, TLC

VARIABLES record, tieUp, call, ret, trace, workers, acc, session, db, run

vars == <<record, tieUp, call, ret, trace, workers, acc, session, db, run>>

-----------------------------------------------------------------------------
(* Python values *)

Missing == [t |-> "missing", v |-> 0]
None == [t |-> "none", v |-> 0]
Str == [t |-> "str", v |-> 0]
Num(n) == [t |-> "num", v |-> n]

\* competition_level: a string, None or absent
LevelOf(s) == [t |-> "str", s |-> s]
LevelMissing == [t |-> "missing", s |-> ""]
LevelNone == [t |-> "none", s |-> ""]

\* dict.get(key, default): the default only when the key is absent
Get(x, default) == IF x.t = "missing" THEN default ELSE x

\* truth value of a Python object
Truthy(x) == (x.t = "str") \/ (x.t = "num" /\ x.v # 0)

\* x or d
Or(x, d) == IF Truthy(x) THEN x ELSE d

\* float(x) succeeds; also isinstance(x, (int, float))
IsNumber(x) == x.t = "num"

\* a fraction n/d with d # 0, brought to a positive denominator
Frac(n, d) == IF d < 0 THEN [n |-> -n, d |-> -d] ELSE [n |-> n, d |-> d]

\* the fraction n/d (d > 0) lies exactly half way between two tenths
IsTie(n, d) == 2 * ((10 * n) % d) = d

\* round(n/d, 1) in tenths, d > 0: the nearest tenth; on a decimal tie the
\* binary value of the float decides, given here by up
RoundTenths(n, d, up) ==
    LET q == (10 * n) \div d
        r == (10 * n) % d
    IN  IF 2 * r < d THEN q
        ELSE IF 2 * r > d THEN q + 1
        ELSE IF up THEN q + 1 ELSE q

-----------------------------------------------------------------------------
(* Program constants *)

DefaultCompetition == 50
ScoreCap == 10
MinGrowthMonths == 2
MinSeasonMonths == 12

MonthNames == <<"Jan", "Feb", "Mar", "Apr", "May", "Jun",
                "Jul", "Aug", "Sep", "Oct", "Nov", "Dec">>

-----------------------------------------------------------------------------
(* Results of a call *)

NotSeasonal == [is_seasonal |-> FALSE, peak_months |-> <<>>, low_months |-> <<>>,
                peak_from |-> <<>>, low_from |-> <<>>]

NoRet == [raised |-> FALSE, value |-> 0, season |-> NotSeasonal, rec |-> <<>>]

Raised == [NoRet EXCEPT !.raised = TRUE]
ReturnedValue(x) == [NoRet EXCEPT !.value = x]
ReturnedSeason(s) == [NoRet EXCEPT !.season = s]
ReturnedRec(r) == [NoRet EXCEPT !.rec = r]

-----------------------------------------------------------------------------
(* calculate_opportunity_score *)

\* keyword_data.get("monthly_searches", [])
MonthlyOf(kd) ==
    IF kd.monthly_searches.t = "missing" THEN [t |-> "list", v |-> <<>>]
    ELSE kd.monthly_searches

\* faulty variant: monthly[0] read as the oldest, monthly[-1] as the recent
GrowthFactor_Swapped(monthly) ==
    IF Len(monthly) >= MinGrowthMonths
    THEN LET recent == Or(Get(monthly[Len(monthly)].search_volume, Num(0)), Num(0))
             old == Or(Get(monthly[1].search_volume, Num(1)), Num(1))
         IN  IF ~IsNumber(old) THEN Frac(1, 1)
             ELSE IF old.v > 0
                  THEN IF IsNumber(recent) THEN Frac(recent.v, old.v)
                       ELSE Frac(1, 1)
                  ELSE Frac(1, 1)
    ELSE Frac(1, 1)

\* growth_factor of the score, as a fraction
GrowthFactor(monthly) ==
    IF Len(monthly) >= MinGrowthMonths
    THEN LET recent == Or(Get(monthly[1].search_volume, Num(0)), Num(0))
             old == Or(Get(monthly[Len(monthly)].search_volume, Num(1)), Num(1))
         IN  IF ~IsNumber(old) THEN Frac(1, 1)             \* old > 0 raises TypeError
             ELSE IF old.v > 0
                  THEN IF IsNumber(recent) THEN Frac(recent.v, old.v)
                       ELSE Frac(1, 1)                     \* float(recent) raises ValueError
                  ELSE Frac(1, 1)
    ELSE Frac(1, 1)

\* volume after "or 0"
ScoreVolume(kd) == Or(Get(kd.search_volume, Num(0)), Num(0))

\* faulty variant: the default only for None, not for 0
ScoreCompetition_NoneOnly(kd) ==
    LET competition == Get(kd.competition, None)
    IN  IF competition.t = "none" THEN Num(DefaultCompetition) ELSE competition

\* competition after the default for None and 0
ScoreCompetition(kd) ==
    LET competition == Get(kd.competition, None)
    IN  IF competition.t = "none" \/ (competition.t = "num" /\ competition.v = 0)
        THEN Num(DefaultCompetition)
        ELSE competition

\* faulty variant: the docstring's divisor, competition * 10
RawScore_DocstringDivisor(kd) ==
    LET gf == GrowthFactor(MonthlyOf(kd).v)
    IN  Frac(10 * ScoreVolume(kd).v * gf.n, ScoreCompetition(kd).v * gf.d)

\* the score before min and round, as a fraction; defined when both coerce
\* and monthly_searches is a list
RawScore(kd) ==
    LET gf == GrowthFactor(MonthlyOf(kd).v)
    IN  Frac(ScoreVolume(kd).v * gf.n, ScoreCompetition(kd).v * gf.d)

\* faulty variant: the min(score, 10.0) left out
CapAndRound_NoCap(f, up) == RoundTenths(f.n, f.d, up)

\* round(min(score, 10.0), 1) in tenths
CapAndRound(f, up) ==
    IF f.n > ScoreCap * f.d THEN 10 * ScoreCap ELSE RoundTenths(f.n, f.d, up)

\* faulty variant: the coercions are not in a try block
calculate_opportunity_score_NoTry(kd, up) ==
    IF ~IsNumber(ScoreVolume(kd)) \/ ~IsNumber(ScoreCompetition(kd))
    THEN Raised
    ELSE IF MonthlyOf(kd).t = "none" THEN Raised
    ELSE IF RawScore(kd).d = 0 THEN ReturnedValue(0)
    ELSE ReturnedValue(CapAndRound(RawScore(kd), up))

calculate_opportunity_score(kd, up) ==
    IF ~IsNumber(ScoreVolume(kd)) \/ ~IsNumber(ScoreCompetition(kd))
    THEN ReturnedValue(0)
    ELSE IF MonthlyOf(kd).t = "none" THEN Raised           \* len(None): TypeError
    ELSE IF RawScore(kd).d = 0 THEN ReturnedValue(0)       \* ZeroDivisionError
    ELSE ReturnedValue(CapAndRound(RawScore(kd), up))

-----------------------------------------------------------------------------
(* calculate_growth_rate *)

GrowthRecent(monthly) == Or(Get(monthly[1].search_volume, Num(0)), Num(0))

\* faulty variant: the score's default, "or 1", for the oldest volume
GrowthOld_OrOne(monthly) == Or(Get(monthly[Len(monthly)].search_volume, Num(1)), Num(1))

\* faulty variant: monthly[1] in place of monthly[-1]
GrowthOld_Second(monthly) == Or(Get(monthly[2].search_volume, Num(0)), Num(0))

GrowthOld(monthly) == Or(Get(monthly[Len(monthly)].search_volume, Num(0)), Num(0))

\* the guards that return 0.0: not monthly, len < 2, a failed float(), old == 0
GrowthIsZero(kd) ==
    LET m == MonthlyOf(kd)
    IN  \/ m.t = "none"
        \/ Len(m.v) < MinGrowthMonths
        \/ ~IsNumber(GrowthRecent(m.v))
        \/ ~IsNumber(GrowthOld(m.v))
        \/ GrowthOld(m.v).v = 0

\* ((recent - old) / old) * 100 as a fraction; defined unless GrowthIsZero
RawGrowth(kd) ==
    LET m == MonthlyOf(kd).v
    IN  Frac(100 * (GrowthRecent(m).v - GrowthOld(m).v), GrowthOld(m).v)

\* faulty variant: a value remembered from the last score call is returned
calculate_growth_rate_Remembered(kd, up) ==
    IF call = "calculate_opportunity_score" /\ ~ret.raised THEN ReturnedValue(ret.value)
    ELSE IF GrowthIsZero(kd) THEN ReturnedValue(0)
    ELSE ReturnedValue(RoundTenths(RawGrowth(kd).n, RawGrowth(kd).d, up))

calculate_growth_rate(kd, up) ==
    IF GrowthIsZero(kd) THEN ReturnedValue(0)
    ELSE ReturnedValue(RoundTenths(RawGrowth(kd).n, RawGrowth(kd).d, up))

-----------------------------------------------------------------------------
(* detect_seasonality *)

\* m.get("search_volume", 0) or 0
SeasonVolume(m) == Or(Get(m.search_volume, Num(0)), Num(0))

\* volumes: the numeric values of that list, as (sum, count)
RECURSIVE SumVolumes(_, _)
SumVolumes(monthly, i) ==
    IF i = 0 THEN [sum |-> 0, count |-> 0]
    ELSE LET rest == SumVolumes(monthly, i - 1)
             vol == SeasonVolume(monthly[i])
         IN  IF IsNumber(vol)
             THEN [sum |-> rest.sum + vol.v, count |-> rest.count + 1]
             ELSE rest

\* faulty variant: >= in place of >
AbovePeak_Inclusive(vol, t) == 4 * vol * t.count >= 5 * t.sum

\* vol > avg * 1.25 and vol < avg * 0.75, with avg = sum / count, count > 0
AbovePeak(vol, t) == 4 * vol * t.count > 5 * t.sum
BelowLow(vol, t) == 4 * vol * t.count < 3 * t.sum

\* MonthNames[month - 1] of a Python list: a negative index counts from the
\* end, an index outside -12..11 raises IndexError; 0 when it raises
NameIndex(month) ==
    IF month.t # "num" THEN 0                              \* str - int: TypeError
    ELSE IF month.v - 1 \in 0..11 THEN month.v
    ELSE IF month.v - 1 \in -12..-1 THEN month.v + 12
    ELSE 0

\* one pass of the loop body: "peak", "low" or "none"
Classify(m, t) ==
    LET vol == SeasonVolume(m)
        month == Get(m.month, None)
    IN  IF ~IsNumber(vol) \/ ~Truthy(month) THEN "none"
        ELSE IF AbovePeak(vol.v, t)
             THEN IF NameIndex(month) = 0 THEN "none" ELSE "peak"
        ELSE IF BelowLow(vol.v, t)
             THEN IF NameIndex(month) = 0 THEN "none" ELSE "low"
        ELSE "none"

\* one pass of the loop on entry m, the i-th, with the lists so far;
\* peak_from and low_from record the index of the entry each name was
\* appended for
LoopStep(lists, m, t, i) ==
    LET c == Classify(m, t)
    IN  IF c = "peak"
        THEN [lists EXCEPT !.peak_months = Append(@, MonthNames[NameIndex(Get(m.month, None))]),
                           !.peak_from = Append(@, i)]
        ELSE IF c = "low"
        THEN [lists EXCEPT !.low_months = Append(@, MonthNames[NameIndex(Get(m.month, None))]),
                           !.low_from = Append(@, i)]
        ELSE lists

\* the loop over monthly[1..i]
RECURSIVE SeasonLoop(_, _, _)
SeasonLoop(monthly, t, i) ==
    IF i = 0 THEN NotSeasonal
    ELSE LoopStep(SeasonLoop(monthly, t, i - 1), monthly[i], t, i)

\* faulty variant: the low months forgotten
IsSeasonal_PeaksOnly(peak_months, low_months) == Len(peak_months) > 0

\* faulty variant: one month fewer is enough
TooFewMonths_OffByOne(monthly) ==
    monthly.t = "none" \/ Len(monthly.v) < MinSeasonMonths - 1

\* not monthly or len(monthly) < 12
TooFewMonths(monthly) ==
    monthly.t = "none" \/ Len(monthly.v) < MinSeasonMonths

\* is_seasonal = len(peak_months) > 0 or len(low_months) > 0
IsSeasonal(peak_months, low_months) == Len(peak_months) > 0 \/ Len(low_months) > 0

\* faulty variant: no return on an average of 0
detect_seasonality_NoZeroCheck(kd) ==
    LET monthly == MonthlyOf(kd)
        t == SumVolumes(monthly.v, Len(monthly.v))
        found == SeasonLoop(monthly.v, t, Len(monthly.v))
    IN  IF TooFewMonths(monthly) THEN NotSeasonal
        ELSE IF t.count = 0 THEN NotSeasonal
        ELSE [found EXCEPT !.is_seasonal = IsSeasonal(found.peak_months, found.low_months)]

detect_seasonality(kd) ==
    LET monthly == MonthlyOf(kd)
        t == SumVolumes(monthly.v, Len(monthly.v))
        found == SeasonLoop(monthly.v, t, Len(monthly.v))
    IN  IF TooFewMonths(monthly) THEN NotSeasonal
        ELSE IF t.count = 0 THEN NotSeasonal
        ELSE IF t.sum = 0 THEN NotSeasonal
        ELSE [found EXCEPT !.is_seasonal = IsSeasonal(found.peak_months, found.low_months)]

-----------------------------------------------------------------------------
(* generate_recommendation *)

ExcellentScore == 70
GoodScore == 40
GrowingFast == 100
Declining == -100
MaxPeaksShown == 3

\* faulty variant: no clause for a score below 4.0
TierClause_NoElse(score) ==
    IF score >= ExcellentScore THEN <<[kind |-> "tier", marker |-> "check mark", text |-> "Excellent opportunity! "]>>
    ELSE IF score >= GoodScore THEN <<[kind |-> "tier", marker |-> "warning sign", text |-> "Good opportunity with caveats. "]>>
    ELSE <<>>

\* faulty variant: the boundaries 7.0 and 4.0 given to the lower tier
TierClause_Strict(score) ==
    IF score > ExcellentScore THEN <<[kind |-> "tier", marker |-> "check mark", text |-> "Excellent opportunity! "]>>
    ELSE IF score > GoodScore THEN <<[kind |-> "tier", marker |-> "warning sign", text |-> "Good opportunity with caveats. "]>>
    ELSE <<[kind |-> "tier", marker |-> "cross mark", text |-> "Difficult keyword. "]>>

\* faulty variant: the string opens with the text, no emoji before it
TierClause_NoMarker(score) ==
    IF score >= ExcellentScore THEN <<[kind |-> "tier", marker |-> "", text |-> "Excellent opportunity! "]>>
    ELSE IF score >= GoodScore THEN <<[kind |-> "tier", marker |-> "", text |-> "Good opportunity with caveats. "]>>
    ELSE <<[kind |-> "tier", marker |-> "", text |-> "Difficult keyword. "]>>

\* the opening clause: an emoji (given by its name), a space and the text
TierClause(score) ==
    IF score >= ExcellentScore THEN <<[kind |-> "tier", marker |-> "check mark", text |-> "Excellent opportunity! "]>>
    ELSE IF score >= GoodScore THEN <<[kind |-> "tier", marker |-> "warning sign", text |-> "Good opportunity with caveats. "]>>
    ELSE <<[kind |-> "tier", marker |-> "cross mark", text |-> "Difficult keyword. "]>>

\* faulty variant: >= 10 and <= -10
GrowthClause_Inclusive(growth) ==
    IF growth >= GrowingFast THEN <<[kind |-> "growth", text |-> "Growing fast", value |-> growth]>>
    ELSE IF growth <= Declining THEN <<[kind |-> "growth", text |-> "Declining", value |-> growth]>>
    ELSE <<>>

\* f"Growing fast (+{growth}%). " / f"Declining ({growth}%). "
GrowthClause(growth) ==
    IF growth > GrowingFast THEN <<[kind |-> "growth", text |-> "Growing fast", value |-> growth]>>
    ELSE IF growth < Declining THEN <<[kind |-> "growth", text |-> "Declining", value |-> growth]>>
    ELSE <<>>

\* faulty variant: every peak month listed
FirstPeaks_All(peak_months) == peak_months

\* seasonality["peak_months"][:3]
FirstPeaks(peak_months) ==
    SubSeq(peak_months, 1, IF Len(peak_months) < MaxPeaksShown THEN Len(peak_months) ELSE MaxPeaksShown)

PeaksClause(season) ==
    IF season.is_seasonal /\ Len(season.peak_months) > 0
    THEN <<[kind |-> "peaks", text |-> "Peaks in", months |-> FirstPeaks(season.peak_months)]>>
    ELSE <<>>

\* keyword_data.get("competition_level", "UNKNOWN")
CompetitionLevel(kd) ==
    IF kd.competition_level.t = "missing" THEN LevelOf("UNKNOWN") ELSE kd.competition_level

\* faulty variant: else in place of elif competition == "LOW"
CompetitionClause_ElseLow(level) ==
    IF level = LevelOf("HIGH")
    THEN <<[kind |-> "competition", text |-> "High competition - consider long-tail variations."]>>
    ELSE <<[kind |-> "competition", text |-> "Low competition - great for quick wins!"]>>

CompetitionClause(level) ==
    IF level = LevelOf("HIGH")
    THEN <<[kind |-> "competition", text |-> "High competition - consider long-tail variations."]>>
    ELSE IF level = LevelOf("LOW")
    THEN <<[kind |-> "competition", text |-> "Low competition - great for quick wins!"]>>
    ELSE <<>>

\* the string is held as the sequence of the clauses concatenated into it
Compose(score, growth, seasonality, kd) ==
    TierClause(score) \o GrowthClause(growth)
        \o PeaksClause(seasonality) \o CompetitionClause(CompetitionLevel(kd))

generate_recommendation(kd, up) ==
    LET score == calculate_opportunity_score(kd, up.score)
        growth == calculate_growth_rate(kd, up.growth)
        seasonality == detect_seasonality(kd)
    IN  IF score.raised THEN Raised
        ELSE ReturnedRec(Compose(score.value, growth.value, seasonality, kd))

-----------------------------------------------------------------------------
(* Input records *)

MaxShortLen == 2
MaxExtra == 1
MaxPeaks == 5
MaxNulls == 3

\* vendor order: index 1 is the most recent month, the months descend
MonthOf(i) == ((12 - i) % 12) + 1

Entry(m, v) == [month |-> m, search_volume |-> v]

Series(len, base, first, last) ==
    [i \in 1..len |->
        IF i = 1 THEN first
        ELSE IF i = len THEN Entry(Num(MonthOf(i)), last)
        ELSE Entry(Num(MonthOf(i)), base)]

List(s) == [t |-> "list", v |-> s]

TopVolumes == {Missing, None, Str, Num(-200), Num(0), Num(5), Num(200), Num(350), Num(2000)}
Competitions == {Missing, None, Str, Num(0), Num(50), Num(100), Num(-50)}
Levels == {LevelMissing, LevelNone, LevelOf("LOW"), LevelOf("MEDIUM"),
           LevelOf("HIGH"), LevelOf("UNKNOWN")}

FewVolumes == {None, Num(0), Num(4), Num(12), Num(16), Num(17)}
MonthlyVolumes == {Missing, None, Str, Num(-4), Num(0), Num(3), Num(4), Num(5),
                   Num(9), Num(10), Num(11), Num(12)}
Months == {Num(12), None, Num(0), Num(13), Num(-1), Str}
BaseVolumes == {Num(0), Num(4)}

ShortLens == 0..MaxShortLen
LongLens == (MinSeasonMonths - 1)..(MinSeasonMonths + MaxExtra)

\* short series over few volumes, for the records that vary the scalar fields
FewSeries ==
    {[t |-> "missing", v |-> <<>>], [t |-> "none", v |-> <<>>]} \cup
    {List(Series(len, base, Entry(Num(12), first), last)) :
        len \in ShortLens, base \in {Num(4)}, first \in FewVolumes, last \in FewVolumes}

\* series of every length that vary the first and the last entry
AllSeries ==
    {List(Series(len, base, Entry(m, first), last)) :
        len \in ShortLens \cup LongLens, base \in BaseVolumes, m \in Months,
        first \in MonthlyVolumes, last \in MonthlyVolumes}

ScalarRecords ==
    [search_volume : TopVolumes, competition : Competitions,
     competition_level : Levels, monthly_searches : FewSeries]

SeriesRecords ==
    [search_volume : {Num(200)}, competition : {Num(20)},
     competition_level : {LevelMissing, LevelOf("HIGH")}, monthly_searches : AllSeries]

\* a year of entries of which the p most recent are three times the others
PeakYear(p) ==
    List([i \in 1..MinSeasonMonths |->
             Entry(Num(MonthOf(i)), IF i <= p THEN Num(12) ELSE Num(4))])

PeakSeries == {PeakYear(p) : p \in 0..MaxPeaks}

PeakRecords ==
    [search_volume : {Num(200)}, competition : {Num(20)},
     competition_level : Levels, monthly_searches : PeakSeries]

\* a year of entries of which the q most recent have a null volume
NullYear(q) ==
    List([i \in 1..MinSeasonMonths |->
             Entry(Num(MonthOf(i)), IF i <= q THEN None ELSE Num(10))])

NullSeries == {NullYear(q) : q \in 0..MaxNulls}

NullRecords ==
    [search_volume : {Num(200)}, competition : {Num(20)},
     competition_level : {LevelMissing}, monthly_searches : NullSeries]

Records == ScalarRecords \cup SeriesRecords \cup PeakRecords \cup NullRecords

\* {search_volume: 0, competition: null, monthly_searches: []}
EmptyRecord ==
    [search_volume |-> Num(0), competition |-> None,
     competition_level |-> LevelMissing, monthly_searches |-> List(<<>>)]

\* a decimal tie of the score of kd
ScoreTie(kd) ==
    /\ IsNumber(ScoreVolume(kd)) /\ IsNumber(ScoreCompetition(kd))
    /\ MonthlyOf(kd).t = "list"
    /\ RawScore(kd).d # 0
    /\ RawScore(kd).n <= ScoreCap * RawScore(kd).d
    /\ IsTie(RawScore(kd).n, RawScore(kd).d)

\* a decimal tie of the growth rate of kd
GrowthTie(kd) == ~GrowthIsZero(kd) /\ IsTie(RawGrowth(kd).n, RawGrowth(kd).d)

TieChoices(kd) ==
    [score : IF ScoreTie(kd) THEN BOOLEAN ELSE {FALSE},
     growth : IF GrowthTie(kd) THEN BOOLEAN ELSE {FALSE}]

-----------------------------------------------------------------------------
(* The session of the keyword research page before the first run *)

\* st.session_state after its initialisation, the filter widgets at
\* their defaults, no checkbox shown
FirstSession ==
    [keywords_data |-> <<>>, selected_keywords |-> {}, checks |-> <<>>,
     min_volume |-> 0, competition_filter |-> "ALL", trend_filter |-> "ALL",
     sort_by |-> "Opportunity Score"]

NoRun == [kind |-> "none", fetch |-> "none", fetched |-> <<>>, stored |-> FALSE, saved |-> "none"]

PageClosed == session = FirstSession /\ db = {} /\ run = NoRun

-----------------------------------------------------------------------------
(* The state machine: a record is handed to the functions, in any order *)

Functions ==
    {"calculate_opportunity_score", "calculate_growth_rate",
     "detect_seasonality", "generate_recommendation"}

\* faulty variant: the default competition is written back into the dict
ScoreStep_WritesDefault ==
    /\ call' = "calculate_opportunity_score"
    /\ ret' = calculate_opportunity_score(record, tieUp.score)
    /\ record' = [record EXCEPT !.competition = ScoreCompetition(record)]
    /\ UNCHANGED tieUp

ScoreStep ==
    /\ call' = "calculate_opportunity_score"
    /\ ret' = calculate_opportunity_score(record, tieUp.score)
    /\ UNCHANGED <<record, tieUp>>

GrowthStep ==
    /\ call' = "calculate_growth_rate"
    /\ ret' = calculate_growth_rate(record, tieUp.growth)
    /\ UNCHANGED <<record, tieUp>>

SeasonalityStep ==
    /\ call' = "detect_seasonality"
    /\ ret' = ReturnedSeason(detect_seasonality(record))
    /\ UNCHANGED <<record, tieUp>>

RecommendationStep ==
    /\ call' = "generate_recommendation"
    /\ ret' = generate_recommendation(record, tieUp)
    /\ UNCHANGED <<record, tieUp>>

Init ==
    /\ record \in Records
    /\ tieUp \in TieChoices(record)
    /\ call = "none"
    /\ ret = NoRet
    /\ trace = <<>>
    /\ workers = <<>>
    /\ acc = <<>>
    /\ PageClosed

CallScore == ScoreStep /\ UNCHANGED <<trace, workers, acc, session, db, run>>

CallGrowth == GrowthStep /\ UNCHANGED <<trace, workers, acc, session, db, run>>

CallSeasonality == SeasonalityStep /\ UNCHANGED <<trace, workers, acc, session, db, run>>

CallRecommendation == RecommendationStep /\ UNCHANGED <<trace, workers, acc, session, db, run>>

Next == CallScore \/ CallGrowth \/ CallSeasonality \/ CallRecommendation

Spec == Init /\ [][Next]_vars

-----------------------------------------------------------------------------
(* Repeated calls on one record, with the history of calls kept *)

MaxCalls == 3

HistoryRecords ==
    PeakRecords \cup
    [search_volume : {Num(5), Num(350)},
     competition : {Num(0), Num(100)},
     competition_level : {LevelOf("LOW")},
     monthly_searches : {[t |-> "missing", v |-> <<>>], [t |-> "none", v |-> <<>>],
                         List(Series(2, Num(4), Entry(Num(12), Num(17)), Num(16)))}]

InitHistory ==
    /\ record \in HistoryRecords
    /\ tieUp \in TieChoices(record)
    /\ call = "none"
    /\ ret = NoRet
    /\ trace = <<>>
    /\ workers = <<>>
    /\ acc = <<>>
    /\ PageClosed

\* the call just made and what it returned join the history
Logged ==
    /\ Len(trace) < MaxCalls
    /\ trace' = Append(trace, [fn |-> call', ret |-> ret'])
    /\ UNCHANGED <<workers, acc, session, db, run>>

AgainScore == ScoreStep /\ Logged

AgainGrowth == GrowthStep /\ Logged

AgainSeasonality == SeasonalityStep /\ Logged

AgainRecommendation == RecommendationStep /\ Logged

NextHistory == AgainScore \/ AgainGrowth \/ AgainSeasonality \/ AgainRecommendation

SpecHistory == InitHistory /\ [][NextHistory]_vars

-----------------------------------------------------------------------------
(* Workers: concurrent calls, each on a record of its own *)

NumWorkers == 2

Workers == 1..NumWorkers

\* two keywords with a year of data, two and four peak months
WorkerRecords ==
    {[search_volume |-> Num(200), competition |-> Num(20),
      competition_level |-> LevelOf(l), monthly_searches |-> PeakYear(p)] :
        <<l, p>> \in {<<"HIGH", 2>>, <<"LOW", 4>>}}

\* a worker before its call
WorkerStarts ==
    UNION {[rec : {r}, tie : TieChoices(r), fn : Functions, pc : {"idle"},
            i : {0}, overlap : {FALSE}, res : {NoRet}] : r \in WorkerRecords}

\* faulty variant: peak_months and low_months are one pair of lists for all calls
AccSlot_Shared(w) == 1

\* peak_months and low_months are locals of the call
AccSlot(w) == w

\* detect_seasonality returns before its loop
ReturnsDefault(kd) ==
    LET monthly == MonthlyOf(kd)
    IN  \/ TooFewMonths(monthly)
        \/ SumVolumes(monthly.v, Len(monthly.v)).count = 0
        \/ SumVolumes(monthly.v, Len(monthly.v)).sum = 0

\* what the worker's function returns once detect_seasonality has returned
ReturnWith(me, seasonality) ==
    IF me.fn = "detect_seasonality" THEN ReturnedSeason(seasonality)
    ELSE ReturnedRec(Compose(calculate_opportunity_score(me.rec, me.tie.score).value,
                             calculate_growth_rate(me.rec, me.tie.growth).value,
                             seasonality, me.rec))

InitWorkers ==
    /\ record = EmptyRecord
    /\ tieUp = [score |-> FALSE, growth |-> FALSE]
    /\ call = "none"
    /\ ret = NoRet
    /\ trace = <<>>
    /\ workers \in [Workers -> WorkerStarts]
    /\ acc = [w \in Workers |-> NotSeasonal]
    /\ PageClosed

\* calculate_opportunity_score and calculate_growth_rate: no loop, locals only
WorkerNumber(w) ==
    /\ workers[w].pc = "idle"
    /\ workers[w].fn \in {"calculate_opportunity_score", "calculate_growth_rate"}
    /\ workers' = [workers EXCEPT ![w].pc = "done",
                                  ![w].res = IF workers[w].fn = "calculate_opportunity_score"
                                             THEN calculate_opportunity_score(workers[w].rec, workers[w].tie.score)
                                             ELSE calculate_growth_rate(workers[w].rec, workers[w].tie.growth)]
    /\ UNCHANGED <<record, tieUp, call, ret, trace, acc, session, db, run>>

\* detect_seasonality up to its loop, called directly or by generate_recommendation
WorkerEnter(w) ==
    /\ workers[w].pc = "idle"
    /\ workers[w].fn \in {"detect_seasonality", "generate_recommendation"}
    /\ IF /\ workers[w].fn = "generate_recommendation"
          /\ calculate_opportunity_score(workers[w].rec, workers[w].tie.score).raised
       THEN /\ workers' = [workers EXCEPT ![w].pc = "done", ![w].res = Raised]
            /\ UNCHANGED acc
       ELSE IF ReturnsDefault(workers[w].rec)
       THEN /\ workers' = [workers EXCEPT ![w].pc = "done",
                                          ![w].res = ReturnWith(workers[w], NotSeasonal)]
            /\ UNCHANGED acc
       ELSE /\ workers' = [workers EXCEPT ![w].pc = "loop"]
            /\ acc' = [acc EXCEPT ![AccSlot(w)] = NotSeasonal]
    /\ UNCHANGED <<record, tieUp, call, ret, trace, session, db, run>>

\* one pass of the loop
WorkerLoop(w) ==
    /\ workers[w].pc = "loop"
    /\ workers[w].i < Len(MonthlyOf(workers[w].rec).v)
    /\ LET monthly == MonthlyOf(workers[w].rec).v
           i == workers[w].i + 1
       IN  /\ acc' = [acc EXCEPT ![AccSlot(w)] =
                        LoopStep(@, monthly[i], SumVolumes(monthly, Len(monthly)), i)]
           /\ workers' = [workers EXCEPT
                            ![w].i = i,
                            ![w].overlap = @ \/ \E o \in Workers \ {w} :
                                                    workers[o].pc = "loop" /\ workers[o].i > 0]
    /\ UNCHANGED <<record, tieUp, call, ret, trace, session, db, run>>

\* after the loop: is_seasonal, and the return
WorkerReturn(w) ==
    /\ workers[w].pc = "loop"
    /\ workers[w].i = Len(MonthlyOf(workers[w].rec).v)
    /\ LET found == acc[AccSlot(w)]
           seasonality == [found EXCEPT !.is_seasonal =
                               IsSeasonal(found.peak_months, found.low_months)]
       IN  workers' = [workers EXCEPT ![w].pc = "done",
                                      ![w].res = ReturnWith(workers[w], seasonality)]
    /\ UNCHANGED <<record, tieUp, call, ret, trace, acc, session, db, run>>

NextWorkers ==
    \E w \in Workers : WorkerNumber(w) \/ WorkerEnter(w) \/ WorkerLoop(w) \/ WorkerReturn(w)

SpecWorkers == InitWorkers /\ [][NextWorkers]_vars

-----------------------------------------------------------------------------
(* The keyword research page: render_keywords_app of src/app_keywords.py *)

MaxFetched == 2

ShownRows == 50
TrendBand == 50

NoTie == [score |-> FALSE, growth |-> FALSE]

PageKeywords == {"a", "b", "c"}

\* what the API returns for a keyword: "a" grows over a year of data, "b"
\* declines over two months, "c" has no data (null volume, null series);
\* none of them has a rounding tie
ApiResult(k) ==
    CASE k = "a" -> [keyword |-> "a", cpc |-> 1, search_volume |-> Num(200),
                     competition |-> Num(20), competition_level |-> LevelOf("HIGH"),
                     monthly_searches |-> PeakYear(2)]
      [] k = "b" -> [keyword |-> "b", cpc |-> 3, search_volume |-> Num(350),
                     competition |-> Num(100), competition_level |-> LevelOf("LOW"),
                     monthly_searches |-> List(Series(2, Num(4), Entry(Num(12), Num(4)), Num(12)))]
      [] k = "c" -> [keyword |-> "c", cpc |-> 0, search_volume |-> None,
                     competition |-> None, competition_level |-> LevelNone,
                     monthly_searches |-> [t |-> "none", v |-> <<>>]]

\* result lists of distinct keywords, of 1..MaxFetched keywords
FetchedLists ==
    {ks \in UNION {[1..n -> PageKeywords] : n \in 1..MaxFetched} :
        \A i \in DOMAIN ks : \A j \in DOMAIN ks : ks[i] = ks[j] => i = j}

\* the response of a fetch: an error, or the keywords found
Responses ==
    {[error |-> TRUE, keywords |-> <<>>]} \cup
    {[error |-> FALSE, keywords |-> [i \in DOMAIN ks |-> ApiResult(ks[i])]] : ks \in FetchedLists}

\* one pass of the enriching loop raises: calculate_opportunity_score is
\* called first and is the one function that can raise
EnrichRaises(kw) == calculate_opportunity_score(kw, NoTie.score).raised

\* kw_copy: the keyword's dict with the five derived fields
Enrich(kw) ==
    [keyword |-> kw.keyword, cpc |-> kw.cpc, search_volume |-> kw.search_volume,
     competition |-> kw.competition, competition_level |-> kw.competition_level,
     monthly_searches |-> kw.monthly_searches,
     opportunity_score |-> calculate_opportunity_score(kw, NoTie.score).value,
     growth_rate |-> calculate_growth_rate(kw, NoTie.growth).value,
     is_seasonal |-> detect_seasonality(kw).is_seasonal,
     peak_months |-> FirstPeaks(detect_seasonality(kw).peak_months),
     recommendation |-> generate_recommendation(kw, NoTie).rec]

EnrichAll(all_keywords) == [i \in DOMAIN all_keywords |-> Enrich(all_keywords[i])]

\* the three filters, in the order of the code
PassesFilters(kw, sess) ==
    /\ Get(kw.search_volume, Num(0)).v >= sess.min_volume
    /\ sess.competition_filter # "ALL" => kw.competition_level = LevelOf(sess.competition_filter)
    /\ sess.trend_filter = "Growing" => kw.growth_rate > TrendBand
    /\ sess.trend_filter = "Declining" => kw.growth_rate < -TrendBand
    /\ sess.trend_filter = "Stable" => (-TrendBand <= kw.growth_rate /\ kw.growth_rate <= TrendBand)

RECURSIVE Filter(_, _)
Filter(kws, sess) ==
    IF kws = <<>> THEN <<>>
    ELSE IF PassesFilters(Head(kws), sess) THEN <<Head(kws)>> \o Filter(Tail(kws), sess)
    ELSE Filter(Tail(kws), sess)

\* the key of sorted(...) for the chosen order
SortKey(kw, sort_by) ==
    CASE sort_by = "Opportunity Score" -> kw.opportunity_score
      [] sort_by = "Search Volume" -> Get(kw.search_volume, Num(0)).v
      [] sort_by = "CPC" -> kw.cpc
      [] sort_by = "Growth Rate" -> kw.growth_rate

\* sorted(..., reverse=True): descending, equal keys in their former order
RECURSIVE Sorted(_, _)
Sorted(kws, sort_by) ==
    IF kws = <<>> THEN <<>>
    ELSE LET rest == Sorted(SubSeq(kws, 1, Len(kws) - 1), sort_by)
             last == kws[Len(kws)]
             ahead == {i \in 1..Len(rest) : SortKey(rest[i], sort_by) >= SortKey(last, sort_by)}
             at == IF ahead = {} THEN 0 ELSE CHOOSE i \in ahead : \A j \in ahead : j <= i
         IN  SubSeq(rest, 1, at) \o <<last>> \o SubSeq(rest, at + 1, Len(rest))

\* filtered_keywords[:50], the rows of the table
Rows(sess) ==
    LET filtered_keywords == Sorted(Filter(sess.keywords_data, sess), sess.sort_by)
    IN  SubSeq(filtered_keywords, 1,
               IF Len(filtered_keywords) < ShownRows THEN Len(filtered_keywords) ELSE ShownRows)

\* the loop over the rows 1..i: each checkbox is read and its keyword added
\* to or discarded from selected_keywords.  The checkbox of row i returns
\* the value it holds (the one just clicked, or the one it returned in the
\* last run) or the default passed as value=, as held[i] says.
RECURSIVE CheckboxLoop(_, _, _, _, _)
CheckboxLoop(rows, i, sess, clicked, held) ==
    IF i = 0 THEN [selected_keywords |-> sess.selected_keywords, checks |-> <<>>]
    ELSE LET before == CheckboxLoop(rows, i - 1, sess, clicked, held)
             keyword == rows[i].keyword
             default == keyword \in before.selected_keywords
             state == IF i = clicked THEN ~sess.checks[i]
                      ELSE IF i \in DOMAIN sess.checks THEN sess.checks[i]
                      ELSE default
             is_selected == IF held[i] THEN state ELSE default
         IN  [selected_keywords |-> IF is_selected
                                    THEN before.selected_keywords \cup {keyword}
                                    ELSE before.selected_keywords \ {keyword},
              checks |-> Append(before.checks, is_selected)]

\* the script from SECTION 2 on: nothing is shown without keywords_data
Render(sess, clicked, held) ==
    IF sess.keywords_data = <<>> THEN [sess EXCEPT !.checks = <<>>]
    ELSE LET after == CheckboxLoop(Rows(sess), Len(Rows(sess)), sess, clicked, held)
         IN  [sess EXCEPT !.selected_keywords = after.selected_keywords,
                          !.checks = after.checks]

\* the ways the checkboxes of the rows can answer
Held(sess) == [1..Len(Rows(sess)) -> BOOLEAN]

\* faulty variant: the former results come back when the save fails
KeptAfterSave_RolledBack(enriched_keywords, former, saved) ==
    IF saved THEN enriched_keywords ELSE former

\* keywords_data is assigned before the save and not touched after it
KeptAfterSave(enriched_keywords, former, saved) == enriched_keywords

\* faulty variant: the selection is kept across result sets
NewSelection_Kept(former) == former

\* st.session_state.selected_keywords = set()
NewSelection(former) == {}

InitPage ==
    /\ record = EmptyRecord
    /\ tieUp = NoTie
    /\ call = "none"
    /\ ret = NoRet
    /\ trace = <<>>
    /\ workers = <<>>
    /\ acc = <<>>
    /\ PageClosed

\* the page has been drawn to its end by the last run
PageShown == run.fetch # "raised"

\* the button clicked with an empty input: a warning, then the page
ResearchNothing ==
    /\ PageShown
    /\ \E held \in Held(session) : session' = Render(session, 0, held)
    /\ run' = [NoRun EXCEPT !.kind = "research", !.fetch = "no input"]
    /\ UNCHANGED <<record, tieUp, call, ret, trace, workers, acc, db>>

\* the button clicked: fetch, enrich, store, save, then the page
Research(response, saved) ==
    LET all_keywords == IF response.error THEN <<>> ELSE response.keywords
        stored == [session EXCEPT
                     !.keywords_data = KeptAfterSave(EnrichAll(all_keywords), @, saved),
                     !.selected_keywords = NewSelection(@)]
    IN  IF all_keywords = <<>>
        THEN /\ saved
             /\ \E held \in Held(session) : session' = Render(session, 0, held)
             /\ run' = [NoRun EXCEPT !.kind = "research", !.fetch = "error"]
             /\ UNCHANGED <<record, tieUp, call, ret, trace, workers, acc, db>>
        ELSE IF \E i \in DOMAIN all_keywords : EnrichRaises(all_keywords[i])
        THEN /\ saved
             /\ run' = [NoRun EXCEPT !.kind = "research", !.fetch = "raised",
                                     !.fetched = all_keywords]
             /\ UNCHANGED <<record, tieUp, call, ret, trace, workers, acc, session, db>>
        ELSE /\ \E held \in Held(stored) : session' = Render(stored, 0, held)
             /\ db' = IF saved THEN db \cup {all_keywords[i].keyword : i \in DOMAIN all_keywords}
                      ELSE db
             /\ run' = [kind |-> "research", fetch |-> "found", fetched |-> all_keywords,
                        stored |-> TRUE, saved |-> IF saved THEN "saved" ELSE "failed"]
             /\ UNCHANGED <<record, tieUp, call, ret, trace, workers, acc>>

\* a filter widget changed: the page is run again with its new value
Refilter(changed) ==
    /\ PageShown
    /\ session.keywords_data # <<>>
    /\ changed # session
    /\ \E held \in Held(changed) : session' = Render(changed, 0, held)
    /\ run' = [NoRun EXCEPT !.kind = "filter"]
    /\ UNCHANGED <<record, tieUp, call, ret, trace, workers, acc, db>>

SetMinVolume(v) == Refilter([session EXCEPT !.min_volume = v])

SetCompetition(c) == Refilter([session EXCEPT !.competition_filter = c])

SetTrend(t) == Refilter([session EXCEPT !.trend_filter = t])

SetSort(o) == Refilter([session EXCEPT !.sort_by = o])

\* the checkbox of row i clicked
ClickCheckbox(i) ==
    /\ PageShown
    /\ i \in DOMAIN session.checks
    /\ \E held \in Held(session) : session' = Render(session, i, held)
    /\ run' = [NoRun EXCEPT !.kind = "checkbox"]
    /\ UNCHANGED <<record, tieUp, call, ret, trace, workers, acc, db>>

NextPage ==
    \/ ResearchNothing
    \/ \E response \in Responses : \E saved \in BOOLEAN : Research(response, saved)
    \/ \E v \in {0, 300} : SetMinVolume(v)
    \/ \E c \in {"ALL", "LOW"} : SetCompetition(c)
    \/ \E t \in {"ALL", "Growing"} : SetTrend(t)
    \/ \E o \in {"Opportunity Score", "Search Volume"} : SetSort(o)
    \/ \E i \in 1..MaxFetched : ClickCheckbox(i)

SpecPage == InitPage /\ [][NextPage]_vars

-----------------------------------------------------------------------------
(* Properties *)

Abs(n) == IF n < 0 THEN -n ELSE n

ScoreCalled == call = "calculate_opportunity_score"
GrowthCalled == call = "calculate_growth_rate"
SeasonCalled == call = "detect_seasonality"
RecommendationCalled == call = "generate_recommendation"

\* the monthly entries of the record, empty when absent or None
Entries == record.monthly_searches.v

NotNegative(x) == x.t # "num" \/ x.v >= 0

NonNegativeInputs ==
    /\ NotNegative(record.search_volume)
    /\ NotNegative(record.competition)
    /\ \A i \in 1..Len(Entries) : NotNegative(Entries[i].search_volume)

\* C1 as stated: whatever the sign and magnitude of the inputs, a returned
\* score lies in [0.0, 10.0].
C1_ScoreInZeroToTen ==
    (ScoreCalled /\ ~ret.raised) => (0 <= ret.value /\ ret.value <= 100)

\* C1 amended: a returned score is at most 10.0 for any input, and at least
\* 0.0 when search_volume, competition and the monthly volumes are not negative.
C1_ScoreCappedAndFloorOnNonNegative ==
    (ScoreCalled /\ ~ret.raised) =>
        /\ ret.value <= 100
        /\ NonNegativeInputs => ret.value >= 0

\* a score of 2000 / (0.5 * 100) = 40 and more, returned as 10.0
C1_Witness ==
    /\ ScoreCalled /\ ~ret.raised /\ NonNegativeInputs
    /\ record.search_volume = Num(2000) /\ record.competition = Num(50)
    /\ ret.value = 100

AbsentOrNull(x) == x.t \in {"missing", "none"}

SomeFieldAbsentOrNull ==
    \/ AbsentOrNull(record.search_volume)
    \/ AbsentOrNull(record.competition)
    \/ AbsentOrNull(record.competition_level)
    \/ AbsentOrNull(record.monthly_searches)
    \/ \E i \in 1..Len(Entries) :
          AbsentOrNull(Entries[i].search_volume) \/ AbsentOrNull(Entries[i].month)

\* C2 as stated: on a record with a missing or null field every one of the
\* four functions returns a value and none ends in a raised error.
C2_NeverRaisesOnAbsentFields ==
    (call # "none" /\ SomeFieldAbsentOrNull) => ~ret.raised

\* C3: detect_seasonality on fewer than 12 monthly entries (none, missing and
\* None included) returns the not-seasonal default with both lists empty.
C3_FewerThanTwelveNotSeasonal ==
    (SeasonCalled /\ Len(Entries) < 12) =>
        /\ ~ret.raised
        /\ ret.season.is_seasonal = FALSE
        /\ ret.season.peak_months = <<>>
        /\ ret.season.low_months = <<>>

\* eleven entries, the first of them three times the others
C3_Witness ==
    /\ SeasonCalled /\ Len(Entries) = 11
    /\ Entries[1] = Entry(Num(12), Num(12))
    /\ \A i \in 2..11 : Entries[i].search_volume = Num(4)
    /\ ret.season.is_seasonal = FALSE

\* the oldest volume is 0 or null
OldestZeroOrNull ==
    /\ Len(Entries) >= 1
    /\ Entries[Len(Entries)].search_volume \in {Num(0), None, Missing}

\* C4: calculate_growth_rate returns 0.0 on fewer than 2 entries and on an
\* oldest volume of 0 or null, and it always returns a number.
C4_GrowthZeroBaseline ==
    GrowthCalled =>
        /\ ~ret.raised
        /\ (Len(Entries) < 2 \/ OldestZeroOrNull) => ret.value = 0

\* a positive most recent volume over an oldest volume of 0
C4_Witness ==
    /\ GrowthCalled /\ Len(Entries) >= 2
    /\ Entries[Len(Entries)].search_volume = Num(0)
    /\ Entries[1].search_volume = Num(12)
    /\ ret.value = 0

\* a field that holds a number or is absent or null
NumberOrAbsent(x) == x.t \in {"num", "missing", "none"}

\* the number a field stands for, absent and null as d
ValueOr(x, d) == IF x.t = "num" /\ x.v # 0 THEN x.v ELSE d

\* the records of the data model: numeric or absent fields, a list of
\* monthly entries (or none), volumes that are counts
DataModelRecord ==
    /\ NumberOrAbsent(record.search_volume)
    /\ NumberOrAbsent(record.competition)
    /\ record.monthly_searches.t # "none"
    /\ Len(Entries) >= 2 =>
          /\ NumberOrAbsent(Entries[1].search_volume)
          /\ NumberOrAbsent(Entries[Len(Entries)].search_volume)
          /\ NotNegative(Entries[Len(Entries)].search_volume)

\* numerator and denominator of (search_volume * growth_factor) / (competition * 100)
C5_Numerator ==
    ValueOr(record.search_volume, 0)
        * (IF Len(Entries) >= 2 THEN ValueOr(Entries[1].search_volume, 0) ELSE 1)
C5_Denominator ==
    ValueOr(record.competition, 50)
        * (IF Len(Entries) >= 2 THEN ValueOr(Entries[Len(Entries)].search_volume, 1) ELSE 1)
C5_Fraction == Frac(C5_Numerator, C5_Denominator)

C6_DefaultCompetitionSameScore ==
    (ScoreCalled /\ record.competition \in {Num(0), None, Missing, Num(50)}) =>
        \A c \in {Num(0), None, Missing, Num(50)} :
            ret = calculate_opportunity_score([record EXCEPT !.competition = c], tieUp.score)

\* competition exactly 0 and a score that is not 0
C6_Witness ==
    /\ ScoreCalled /\ record.competition = Num(0)
    /\ record.search_volume = Num(350)
    /\ ~ret.raised /\ ret.value = 70

\* C7: from two entries on and with a non-zero oldest volume the growth rate
\* is ((most_recent - oldest) / oldest) * 100 rounded to one decimal, index 0
\* being the most recent and the last index the oldest entry.
C7_GrowthFormula ==
    (/\ GrowthCalled
     /\ Len(Entries) >= 2
     /\ NumberOrAbsent(Entries[1].search_volume)
     /\ Entries[Len(Entries)].search_volume.t = "num"
     /\ Entries[Len(Entries)].search_volume.v # 0) =>
        LET recent == ValueOr(Entries[1].search_volume, 0)
            oldest == Entries[Len(Entries)].search_volume.v
        IN  /\ ~ret.raised
            /\ 2 * Abs(ret.value * oldest - 1000 * (recent - oldest)) <= Abs(oldest)

\* (4 - 12) / 12 * 100 = -66.666..., with entries between the two
C7_Witness ==
    /\ GrowthCalled /\ Len(Entries) >= 12
    /\ Entries[1].search_volume = Num(4)
    /\ Entries[Len(Entries)].search_volume = Num(12)
    /\ Entries[2].search_volume = Num(0)
    /\ ret.value = -667

\* the index i was appended to the list whose indices are from
AppendedFor(from, i) == \E k \in 1..Len(from) : from[k] = i

\* an entry with a month 1..12 and a numeric volume
ValidEntry(m) ==
    /\ m.month.t = "num" /\ m.month.v \in 1..12
    /\ m.search_volume.t = "num"

\* detect_seasonality went through its loop: 12 entries or more, an average
\* that is not 0
SeasonClassified ==
    /\ SeasonCalled /\ Len(Entries) >= 12
    /\ SumVolumes(Entries, Len(Entries)).count > 0
    /\ SumVolumes(Entries, Len(Entries)).sum # 0

\* C8: a valid entry goes to peak_months iff volume > avg * 1.25, to
\* low_months iff volume < avg * 0.75, and to neither list otherwise.
C8_PeakAndLowThresholds ==
    SeasonClassified =>
        LET t == SumVolumes(Entries, Len(Entries))
        IN  \A i \in 1..Len(Entries) :
               ValidEntry(Entries[i]) =>
                  LET v == Entries[i].search_volume.v
                      name == MonthNames[Entries[i].month.v]
                  IN  /\ AppendedFor(ret.season.peak_from, i) <=> (4 * v * t.count > 5 * t.sum)
                      /\ AppendedFor(ret.season.low_from, i) <=> (4 * v * t.count < 3 * t.sum)
                      /\ \A k \in 1..Len(ret.season.peak_from) :
                            ret.season.peak_from[k] = i => ret.season.peak_months[k] = name
                      /\ \A k \in 1..Len(ret.season.low_from) :
                            ret.season.low_from[k] = i => ret.season.low_months[k] = name

\* an average of 4 over 12 entries, one entry of exactly 5 = 4 * 1.25 and
\* one of exactly 3 = 4 * 0.75: neither is listed
C8_Witness ==
    /\ SeasonClassified /\ Len(Entries) = 12
    /\ Entries[1] = Entry(Num(12), Num(5))
    /\ Entries[12].search_volume = Num(3)
    /\ SumVolumes(Entries, 12) = [sum |-> 48, count |-> 12]
    /\ ret.season.peak_months = <<>> /\ ret.season.low_months = <<>>

\* C9: is_seasonal is true iff peak_months or low_months is not empty.
C9_SeasonalIffSomeMonth ==
    SeasonCalled =>
        (ret.season.is_seasonal <=>
            (ret.season.peak_months # <<>> \/ ret.season.low_months # <<>>))

\* seasonal through a low month alone
C9_Witness ==
    /\ SeasonCalled /\ ret.season.is_seasonal
    /\ ret.season.peak_months = <<>> /\ ret.season.low_months # <<>>

TierTexts ==
    {"Excellent opportunity! ", "Good opportunity with caveats. ", "Difficult keyword. "}

\* C10: a returned recommendation is never empty or blank: it holds exactly
\* one of the three opportunity-tier clauses, whatever other clauses apply.
C10_RecommendationNeverEmpty ==
    (RecommendationCalled /\ ~ret.raised) =>
        /\ Len(ret.rec) >= 1
        /\ Cardinality({k \in 1..Len(ret.rec) : ret.rec[k].kind = "tier"}) = 1
        /\ \A k \in 1..Len(ret.rec) :
              /\ ret.rec[k].text \notin {"", " "}
              /\ ret.rec[k].kind = "tier" => ret.rec[k].text \in TierTexts

\* no growth, peak or competition clause applies: the tier clause alone
C10_Witness ==
    /\ RecommendationCalled /\ ~ret.raised
    /\ Len(ret.rec) = 1 /\ ret.rec[1].kind = "tier"

\* the clauses of a kind in the returned recommendation
ClausesOf(kind) == {k \in 1..Len(ret.rec) : ret.rec[k].kind = kind}

\* the recommendation holds a clause of that kind and text
HasClause(kind, text) == \E k \in ClausesOf(kind) : ret.rec[k].text = text

\* the three results generate_recommendation derives from the record
ScoreOfRecord == calculate_opportunity_score(record, tieUp.score).value
GrowthOfRecord == calculate_growth_rate(record, tieUp.growth).value
SeasonOfRecord == detect_seasonality(record)

Recommended == RecommendationCalled /\ ~ret.raised

\* C11: the opening clause follows from the score alone: "Excellent
\* opportunity" from 7.0 on, "Good opportunity with caveats" from 4.0 to
\* below 7.0, "Difficult keyword" below 4.0.
C11_TierFromScore ==
    Recommended =>
        /\ Len(ret.rec) >= 1
        /\ ret.rec[1].kind = "tier"
        /\ ret.rec[1].text =
              IF ScoreOfRecord >= 70 THEN "Excellent opportunity! "
              ELSE IF ScoreOfRecord >= 40 THEN "Good opportunity with caveats. "
              ELSE "Difficult keyword. "

\* a score of exactly 7.0 in the highest tier
C11_Witness ==
    /\ Recommended /\ ScoreOfRecord = 70
    /\ ret.rec[1].text = "Excellent opportunity! "

\* C12: "Growing fast" iff the growth rate is above 10, "Declining" iff it is
\* below -10, no growth clause from -10 to 10, never both.
C12_GrowthClauseThresholds ==
    Recommended =>
        /\ HasClause("growth", "Growing fast") <=> GrowthOfRecord > 100
        /\ HasClause("growth", "Declining") <=> GrowthOfRecord < -100
        /\ Cardinality(ClausesOf("growth")) <= 1
        /\ \A k \in ClausesOf("growth") : ret.rec[k].value = GrowthOfRecord

\* a growth rate of exactly 10.0 and no growth clause
C12_Witness ==
    /\ Recommended /\ GrowthOfRecord = 100
    /\ ClausesOf("growth") = {}

\* C13: "Peaks in" iff detect_seasonality reports a seasonal record with a
\* peak month, and it lists the first three peak months, or all when fewer.
C13_PeaksClause ==
    Recommended =>
        LET pm == SeasonOfRecord.peak_months
        IN  /\ (ClausesOf("peaks") # {}) <=> (SeasonOfRecord.is_seasonal /\ Len(pm) >= 1)
            /\ Cardinality(ClausesOf("peaks")) <= 1
            /\ \A k \in ClausesOf("peaks") :
                  /\ Len(ret.rec[k].months) = (IF Len(pm) < 3 THEN Len(pm) ELSE 3)
                  /\ \A j \in 1..Len(ret.rec[k].months) : ret.rec[k].months[j] = pm[j]

\* more than three peak months, three of them listed
C13_Witness ==
    /\ Recommended /\ Len(SeasonOfRecord.peak_months) > 3
    /\ \E k \in ClausesOf("peaks") : ret.rec[k].months = <<"Dec", "Nov", "Oct">>

EmptyRecordNumbers ==
    /\ ScoreCalled => ret = ReturnedValue(0)
    /\ GrowthCalled => ret = ReturnedValue(0)
    /\ SeasonCalled => ret = ReturnedSeason(NotSeasonal)

\* C15 as stated: for that record the score and the growth rate are 0.0,
\* seasonality is the default and the recommendation string starts with
\* "Difficult keyword".
C15_EmptyRecordStartsWithText ==
    record = EmptyRecord =>
        /\ EmptyRecordNumbers
        /\ RecommendationCalled =>
              /\ ~ret.raised /\ Len(ret.rec) >= 1
              /\ ret.rec[1].marker = "" /\ ret.rec[1].text = "Difficult keyword. "

\* C15 amended: the recommendation string is the cross-mark emoji, a space
\* and "Difficult keyword. "; the three other results are as stated.
C15_EmptyRecordResults ==
    record = EmptyRecord =>
        /\ EmptyRecordNumbers
        /\ RecommendationCalled =>
              ret = ReturnedRec(<<[kind |-> "tier", marker |-> "cross mark",
                                   text |-> "Difficult keyword. "]>>)

C15_Witness ==
    /\ record = EmptyRecord /\ Recommended
    /\ ret.rec[1].marker = "cross mark"

C17_RecordUnchanged == [][record' = record]_vars

\* the score has returned for a record with monthly entries whose
\* competition is None, for which it computes with the default
C17_Witness ==
    /\ ScoreCalled /\ ~ret.raised /\ ret.value > 0
    /\ Len(Entries) >= MinGrowthMonths
    /\ record.competition = None

\* what a worker's call returns when it is the only one running
Alone(me) ==
    CASE me.fn = "calculate_opportunity_score" -> calculate_opportunity_score(me.rec, me.tie.score)
      [] me.fn = "calculate_growth_rate" -> calculate_growth_rate(me.rec, me.tie.growth)
      [] me.fn = "detect_seasonality" -> ReturnedSeason(detect_seasonality(me.rec))
      [] me.fn = "generate_recommendation" -> generate_recommendation(me.rec, me.tie)

\* C18: workers call the functions concurrently, each on its own record;
\* under every interleaving each call returns what it returns when run
\* alone.
C18_SameAsAlone ==
    \A w \in DOMAIN workers :
        workers[w].pc = "done" => workers[w].res = Alone(workers[w])

\* two workers have returned whose loops ran interleaved, one from
\* detect_seasonality and one from generate_recommendation, on different
\* records, both with peak months found
C18_Witness ==
    /\ DOMAIN workers # {}
    /\ \E w \in DOMAIN workers : \E o \in DOMAIN workers :
          /\ workers[w].pc = "done" /\ workers[o].pc = "done"
          /\ workers[w].overlap /\ workers[o].overlap
          /\ workers[w].rec # workers[o].rec
          /\ workers[w].fn = "detect_seasonality"
          /\ workers[o].fn = "generate_recommendation"
          /\ Len(workers[w].res.season.peak_months) > 0
          /\ \E k \in 1..Len(workers[o].res.rec) : workers[o].res.rec[k].kind = "peaks"

C20_ZeroOldestNeutralFactor ==
    (ScoreCalled /\ Len(Entries) >= MinGrowthMonths /\ OldestZeroOrNull)
        => \E up \in BOOLEAN :
              ret = calculate_opportunity_score([record EXCEPT !.monthly_searches = List(<<>>)], up)

\* sum and count of the volumes of monthly[1..i] that are numbers: an entry
\* whose search_volume is null, missing or not a number adds to neither
RECURSIVE NonNullVolumes(_, _)
NonNullVolumes(monthly, i) ==
    IF i = 0 THEN [sum |-> 0, count |-> 0]
    ELSE LET rest == NonNullVolumes(monthly, i - 1)
         IN  IF monthly[i].search_volume.t = "num"
             THEN [sum |-> rest.sum + monthly[i].search_volume.v, count |-> rest.count + 1]
             ELSE rest

NullVolume(m) == m.search_volume \in {None, Missing}

\* C21: the average of detect_seasonality is the mean of the non-null
\* numeric volumes only: the sum and the count it divides are those of the
\* numeric entries, and the entries are classified against that mean.
C21_AverageOverNonNull ==
    (SeasonCalled /\ Len(Entries) >= MinSeasonMonths) =>
        LET t == NonNullVolumes(Entries, Len(Entries))
        IN  /\ SumVolumes(Entries, Len(Entries)) = t
            /\ (t.count = 0 \/ t.sum = 0) => ret.season = NotSeasonal
            /\ (t.count > 0 /\ t.sum # 0) =>
                  \A i \in 1..Len(Entries) :
                     ValidEntry(Entries[i]) =>
                        LET v == Entries[i].search_volume.v
                        IN  /\ AppendedFor(ret.season.peak_from, i) <=> (4 * v * t.count > 5 * t.sum)
                            /\ AppendedFor(ret.season.low_from, i) <=> (4 * v * t.count < 3 * t.sum)

\* C22: an entry whose search_volume is null or missing is never classified:
\* no name in peak_months or low_months was appended for it.
C22_NullVolumeNotClassified ==
    SeasonCalled =>
        \A i \in 1..Len(Entries) :
            NullVolume(Entries[i]) =>
                /\ ~AppendedFor(ret.season.peak_from, i)
                /\ ~AppendedFor(ret.season.low_from, i)

\* the month of an entry is an integer in 1..12
MonthInRange(m) == m.month.t = "num" /\ m.month.v \in 1..12

\* C23: an entry whose month is not an integer in 1..12 is skipped without
\* error and contributes no abbreviation: every name in peak_months and
\* low_months was appended for an entry with month in 1..12 and is the
\* abbreviation of that month.
C23_OutOfRangeMonthSkipped ==
    SeasonCalled =>
        /\ ~ret.raised
        /\ \A k \in 1..Len(ret.season.peak_from) :
              /\ MonthInRange(Entries[ret.season.peak_from[k]])
              /\ ret.season.peak_months[k] = MonthNames[Entries[ret.season.peak_from[k]].month.v]
        /\ \A k \in 1..Len(ret.season.low_from) :
              /\ MonthInRange(Entries[ret.season.low_from[k]])
              /\ ret.season.low_months[k] = MonthNames[Entries[ret.season.low_from[k]].month.v]

\* C24: with 12 entries or more and an average volume of 0,
\* detect_seasonality returns the not-seasonal default.
C24_ZeroAverageNotSeasonal ==
    (/\ SeasonCalled /\ Len(Entries) >= MinSeasonMonths
     /\ SumVolumes(Entries, Len(Entries)).count > 0
     /\ SumVolumes(Entries, Len(Entries)).sum = 0)
        => ret = ReturnedSeason(NotSeasonal)

\* a year of entries whose volumes are -4, ten times 0 and 4: the average is
\* 0 and one entry is above it
C24_Witness ==
    /\ SeasonCalled /\ Len(Entries) = MinSeasonMonths
    /\ Entries[1] = Entry(Num(12), Num(-4))
    /\ Entries[MinSeasonMonths].search_volume = Num(4)
    /\ SumVolumes(Entries, Len(Entries)) = [sum |-> 0, count |-> 12]
    /\ ret = ReturnedSeason(NotSeasonal)

\* the names of both lists, peak_months first
ListedMonths == ret.season.peak_months \o ret.season.low_months

\* C26: for a series of 12 entries or more, no month abbreviation occurs
\* more than once across peak_months and low_months taken together.
C26_NoMonthListedTwice ==
    (SeasonCalled /\ Len(Entries) >= MinSeasonMonths) =>
        \A j \in 1..Len(ListedMonths) : \A k \in 1..Len(ListedMonths) :
            ListedMonths[j] = ListedMonths[k] => j = k

\* every entry has the same positive volume
SameVolumeThroughout ==
    /\ Entries[1].search_volume.t = "num" /\ Entries[1].search_volume.v > 0
    /\ \A i \in 1..Len(Entries) : Entries[i].search_volume = Entries[1].search_volume

\* C27: a series of 12 entries or more that all have the same positive
\* volume is not seasonal, with both lists empty; and in a series with a
\* positive average at least one numeric entry is not a peak.
C27_FlatNotSeasonalSomeNotPeak ==
    (SeasonCalled /\ Len(Entries) >= MinSeasonMonths) =>
        /\ SameVolumeThroughout => ret = ReturnedSeason(NotSeasonal)
        /\ (/\ SumVolumes(Entries, Len(Entries)).count > 0
            /\ SumVolumes(Entries, Len(Entries)).sum > 0)
              => \E i \in 1..Len(Entries) :
                    /\ Entries[i].search_volume.t = "num"
                    /\ ~AppendedFor(ret.season.peak_from, i)

\* C28: with at least 2 monthly entries and non-negative numeric volumes,
\* the growth rate is above 0 only if the growth factor of the score is
\* above 1, and below 0 only if that factor is below 1.
C28_GrowthSignAgreesWithFactor ==
    (/\ GrowthCalled /\ Len(Entries) >= MinGrowthMonths
     /\ \A i \in 1..Len(Entries) :
           Entries[i].search_volume.t = "num" /\ Entries[i].search_volume.v >= 0)
        => /\ ret.value > 0 => GrowthFactor(Entries).n > GrowthFactor(Entries).d
           /\ ret.value < 0 => GrowthFactor(Entries).n < GrowthFactor(Entries).d

\* a series that falls from 4 to 3: the rate is -25.0 and the factor 3/4
C28_Witness ==
    /\ GrowthCalled /\ Len(Entries) >= MinGrowthMonths
    /\ \A i \in 1..Len(Entries) :
          Entries[i].search_volume.t = "num" /\ Entries[i].search_volume.v >= 0
    /\ ret.value = -250
    /\ GrowthFactor(Entries) = Frac(3, 4)

\* the keywords of the records of keywords_data
KeywordsShown == {session.keywords_data[i].keyword : i \in DOMAIN session.keywords_data}

\* C25: when a fetch succeeds and save_keywords_to_db fails, keywords_data
\* is the enriched list of that fetch: the failure discards nothing.
C25_KeptWhenSaveFails ==
    (run.kind = "research" /\ run.saved = "failed")
        => session.keywords_data = EnrichAll(run.fetched)

\* the results for "a" were saved by an earlier run; the results for "b" and
\* "a" have replaced them and their save has failed
C25_Witness ==
    /\ run.kind = "research" /\ run.saved = "failed"
    /\ db = {"a"}
    /\ Len(session.keywords_data) = 2
    /\ session.keywords_data[1].keyword = "b"
    /\ session.keywords_data = EnrichAll(run.fetched)

\* C29: a research run whose fetch gives an error or no keywords leaves
\* keywords_data and selected_keywords as they were; keywords_data changes
\* only in a research run whose fetch found keywords, and such a run that
\* stores them leaves keywords_data the new enriched list and
\* selected_keywords the empty set.
C29_ReplacedTogetherOrNotAtAll ==
    [][/\ (run'.kind = "research" /\ run'.fetch \in {"error", "no input"})
            => /\ session'.keywords_data = session.keywords_data
               /\ session'.selected_keywords = session.selected_keywords
       /\ session'.keywords_data # session.keywords_data
            => run'.kind = "research" /\ run'.fetch = "found"
       /\ (run'.kind = "research" /\ run'.stored)
            => /\ session'.keywords_data = EnrichAll(run'.fetched)
               /\ session'.selected_keywords = {}]_vars

\* C30: after any sequence of research, filter and checkbox runs, every
\* keyword in selected_keywords is the keyword of a record of the current
\* keywords_data.
C30_SelectionWithinResults == session.selected_keywords \subseteq KeywordsShown

\* the results for "a" were saved by an earlier run and have been replaced
\* by those for "b", which is selected and hidden by the trend filter
C30_Witness ==
    /\ "a" \in db
    /\ KeywordsShown = {"b"}
    /\ session.selected_keywords = {"b"}
    /\ session.trend_filter = "Growing"
    /\ Rows(session) = <<>>

====
